---- MODULE Spec2Model ----
(***************************************************************************)
(* Model of scripts/check_token_contrast.py: the WCAG AA contrast audit of *)
(* the design-system colour tokens.                                        *)
(*                                                                         *)
(* A Python float is modelled in fixed point as five limbs in base 10^4,   *)
(* <<i, f1, f2, f3, f4>> = i + f1/10^4 + f2/10^8 + f3/10^12 + f4/10^16;    *)
(* every arithmetic operation truncates to 10^-16.  Colour components are  *)
(* written in the asset files as decimal strings with three places         *)
(* ("0.400"); the model holds such a string as its number of thousandths   *)
(* (400) and float() converts it.  All samples are inside the sRGB gamut   *)
(* [0,1], the domain of spec section 3 ("Color Sample").                   *)
(*                                                                         *)
(* The module has three entry points, as the script has: a run of main()   *)
(* over a token store, a direct call of load_color_variants on one token   *)
(* file, and a direct call of contrast_ratio on two samples.               *)
(***************************************************************************)
EXTENDS Integers, Sequences, FiniteSets, TLC

VARIABLES
    store,        \* file system: path of a Contents.json -> its content
    pc,           \* position of main(): "start", "loop", "done", "raised"
    idx,          \* index in PAIRS of the pair the for loop handles next
    all_pass,     \* local of main()
    min_ratio,    \* local of main()
    min_pair,     \* local of main()
    out,          \* lines printed to standard output so far
    returned,     \* <<>> until main() returns, then <<value>>
    error,        \* <<>> or <<exception>> that left main()
    token,        \* loader harness: the token passed to load_color_variants
    loaded,       \* loader harness: <<>> or <<outcome of load_color_variants>>
    foreground,   \* ratio harness: first argument of contrast_ratio
    background,   \* ratio harness: second argument of contrast_ratio
    ratio         \* ratio harness: <<>> or <<contrast_ratio(foreground, background),
                  \*                        contrast_ratio(background, foreground)>>

vars == <<store, pc, idx, all_pass, min_ratio, min_pair, out, returned, error,
          token, loaded, foreground, background, ratio>>

mainVars == <<pc, idx, all_pass, min_ratio, min_pair, out, returned, error>>

-----------------------------------------------------------------------------
(* Fixed-point arithmetic standing for Python floats.                      *)

Base == 100 * 100

Float(i, f1, f2, f3, f4) == <<i, f1, f2, f3, f4>>

\* a <= b
Leq(a, b) ==
    \/ a[1] < b[1]
    \/ a[1] = b[1] /\ \/ a[2] < b[2]
                      \/ a[2] = b[2] /\ \/ a[3] < b[3]
                                        \/ a[3] = b[3] /\ \/ a[4] < b[4]
                                                          \/ a[4] = b[4] /\ a[5] <= b[5]

\* a < b
Less(a, b) == ~Leq(b, a)

\* max(a, b) and min(a, b)
Max(a, b) == IF Leq(b, a) THEN a ELSE b
Min(a, b) == IF Leq(a, b) THEN a ELSE b

\* a + b
Add(a, b) ==
    LET t5 == a[5] + b[5]
        t4 == a[4] + b[4] + t5 \div Base
        t3 == a[3] + b[3] + t4 \div Base
        t2 == a[2] + b[2] + t3 \div Base
        t1 == a[1] + b[1] + t2 \div Base
    IN  <<t1, t2 % Base, t3 % Base, t4 % Base, t5 % Base>>

\* a - b, for a >= b
Sub(a, b) ==
    LET t5 == a[5] - b[5]
        t4 == a[4] - b[4] + t5 \div Base
        t3 == a[3] - b[3] + t4 \div Base
        t2 == a[2] - b[2] + t3 \div Base
        t1 == a[1] - b[1] + t2 \div Base
    IN  <<t1, t2 % Base, t3 % Base, t4 % Base, t5 % Base>>

\* d * a for a natural number d < Base
Times(d, a) ==
    LET t5 == d * a[5]
        t4 == d * a[4] + t5 \div Base
        t3 == d * a[3] + t4 \div Base
        t2 == d * a[2] + t3 \div Base
        t1 == d * a[1] + t2 \div Base
    IN  <<t1, t2 % Base, t3 % Base, t4 % Base, t5 % Base>>

\* the limbs s[1], ..., s[k] with the carry c added to s[k] and every limb
\* but the first brought into 0..Base-1
RECURSIVE Carry(_, _, _)
Carry(s, k, c) ==
    IF k = 1 THEN <<s[1] + c>>
    ELSE Append(Carry(s, k - 1, (s[k] + c) \div Base), (s[k] + c) % Base)

\* a * b
Mul(a, b) ==
    SubSeq(Carry(<<a[1]*b[1],
                   a[1]*b[2] + a[2]*b[1],
                   a[1]*b[3] + a[2]*b[2] + a[3]*b[1],
                   a[1]*b[4] + a[2]*b[3] + a[3]*b[2] + a[4]*b[1],
                   a[1]*b[5] + a[2]*b[4] + a[3]*b[3] + a[4]*b[2] + a[5]*b[1],
                   a[2]*b[5] + a[3]*b[4] + a[4]*b[3] + a[5]*b[2],
                   a[3]*b[5] + a[4]*b[4] + a[5]*b[3],
                   a[4]*b[5] + a[5]*b[4],
                   a[5]*b[5]>>, 9, 0), 1, 5)

\* the largest q in lo..hi with q * d <= r
RECURSIVE QuotientDigit(_, _, _, _)
QuotientDigit(r, d, lo, hi) ==
    IF lo >= hi THEN lo
    ELSE LET mid == (lo + hi + 1) \div 2
         IN  IF Leq(Times(mid, d), r) THEN QuotientDigit(r, d, mid, hi)
                                      ELSE QuotientDigit(r, d, lo, mid - 1)

\* r * Base
Shift(r) == <<r[1] * Base + r[2], r[3], r[4], r[5], 0>>

\* the limbs k, ..., 5 of a quotient by d, r the remainder left at limb k
RECURSIVE DivFrom(_, _, _)
DivFrom(r, d, k) ==
    LET q == QuotientDigit(r, d, 0, Base - 1)
    IN  IF k = 5 THEN <<q>>
        ELSE <<q>> \o DivFrom(Shift(Sub(r, Times(q, d))), d, k + 1)

\* n / d by long division, for d > 0 and a quotient below Base
Div(n, d) == DivFrom(n, d, 1)

Pow5(r) == Mul(Mul(Mul(Mul(r, r), r), r), r)

\* the largest v in lo..hi for which r with limb k set to v has r^5 <= y
RECURSIVE RootDigit(_, _, _, _, _)
RootDigit(y, r, k, lo, hi) ==
    IF lo >= hi THEN lo
    ELSE LET mid == (lo + hi + 1) \div 2
         IN  IF Leq(Pow5([r EXCEPT ![k] = mid]), y)
             THEN RootDigit(y, r, k, mid, hi)
             ELSE RootDigit(y, r, k, lo, mid - 1)

\* the fifth root of y whose limbs before k are those of r
RECURSIVE Root5From(_, _, _)
Root5From(y, r, k) ==
    IF k > 5 THEN r
    ELSE Root5From(y, [r EXCEPT ![k] = RootDigit(y, r, k, 0, IF k = 1 THEN 1 ELSE Base - 1)],
                   k + 1)

\* y ** (1/5) for 0 <= y <= 1, limb by limb
Root5(y) == Root5From(y, Float(0, 0, 0, 0, 0), 1)

\* x ** 2.4 for 0 <= x <= 1, as x^2 * (x^2)^(1/5)
Pow24(x) == LET y == Mul(x, x) IN Mul(y, Root5(y))

\* float("0.400"): a three-place decimal string, held as thousandths
float(s) == Float(s \div 1000, (s % 1000) * 10, 0, 0, 0)

\* the e with 2^e <= n / 200 < 2^(e + 1), for n >= 1
RECURSIVE BinaryExponent(_, _)
BinaryExponent(n, e) ==
    IF n < 200 THEN BinaryExponent(2 * n, e - 1)
    ELSE IF n >= 400 THEN BinaryExponent(n \div 2, e + 1)
    ELSE e

RECURSIVE Pow2Mod25(_)
Pow2Mod25(j) == IF j = 0 THEN 1 ELSE (2 * Pow2Mod25(j - 1)) % 25

\* A float whose decimal value n / 200 (n odd) lies half way between the
\* hundredths h = (n - 1) / 2 and h + 1 is the double nearest to n / 200:
\* that double is n / 200 itself when 25 divides n, and "%.2f" then rounds to
\* the even hundredth; otherwise it lies below or above n / 200 according to
\* the remainder of n * 2^(52 - e - 3) modulo 25, e the binary exponent.
TieRoundsUp(n) ==
    LET h == (n - 1) \div 2
        rem == ((n % 25) * Pow2Mod25((49 - BinaryExponent(n, 0)) % 20)) % 25
    IN  IF rem = 0 THEN h % 2 = 1 ELSE rem > 12

\* f"{r:.2f}": the hundredths printed for the float r, round-half-even on
\* the binary value
Format2(r) ==
    LET h == r[1] * 100 + r[2] \div 100
        rest == Float(r[2] % 100, r[3], r[4], r[5], 0)
        half == Float(50, 0, 0, 0, 0)
    IN  IF rest = half THEN (IF TieRoundsUp(2 * h + 1) THEN h + 1 ELSE h)
        ELSE IF Less(half, rest) THEN h + 1
        ELSE h

-----------------------------------------------------------------------------
(* The colorimetric functions.                                             *)

AA_MIN_RATIO == Float(4, 5000, 0, 0, 0)

\* component strings (thousandths) the asset files of the model use
Components == {0, 40, 41, 400, 1000}

Channels == {float(s) : s \in Components}

\* the function f held as an explicit table, each value computed once
Tabulated(f) == f @@ <<>>

LinearTable ==
    Tabulated([value \in Channels |->
        IF Leq(value, Float(0, 404, 5000, 0, 0))
        THEN Div(value, Float(12, 9200, 0, 0, 0))
        ELSE Pow24(Div(Add(value, Float(0, 550, 0, 0, 0)), Float(1, 550, 0, 0, 0)))])

channel_to_linear(value) == LinearTable[value]

Samples == Channels \X Channels \X Channels

LuminanceTable ==
    Tabulated([rgb \in Samples |->
        Add(Add(Mul(Float(0, 2126, 0, 0, 0), channel_to_linear(rgb[1])),
                Mul(Float(0, 7152, 0, 0, 0), channel_to_linear(rgb[2]))),
            Mul(Float(0, 722, 0, 0, 0), channel_to_linear(rgb[3])))])

luminance(rgb) == LuminanceTable[rgb]

RatioTable ==
    Tabulated([fg \in Samples |-> Tabulated([bg \in Samples |->
        LET fg_l == luminance(fg)
            bg_l == luminance(bg)
            lighter == Max(fg_l, bg_l)
            darker == Min(fg_l, bg_l)
        IN  Div(Add(lighter, Float(0, 500, 0, 0, 0)),
                Add(darker, Float(0, 500, 0, 0, 0)))])])

contrast_ratio_unordered(fg, bg) ==
    Div(Add(luminance(fg), Float(0, 500, 0, 0, 0)),
        Add(luminance(bg), Float(0, 500, 0, 0, 0)))

contrast_ratio_inverted(fg, bg) ==
    LET fg_l == luminance(fg)
        bg_l == luminance(bg)
        lighter == Max(fg_l, bg_l)
        darker == Min(fg_l, bg_l)
    IN  Div(Add(darker, Float(0, 500, 0, 0, 0)),
            Add(lighter, Float(0, 500, 0, 0, 0)))

contrast_ratio(fg, bg) == RatioTable[fg][bg]

-----------------------------------------------------------------------------
(* The token store: one Contents.json per token under ASSET_ROOT.          *)

ASSET_ROOT == "grove/Resources/Assets.xcassets"

PAIRS ==
    << <<"textSecondary", "bgPrimary">>,
       <<"textSecondary", "bgCard">>,
       <<"textSecondary", "bgSidebar">>,
       <<"textSecondary", "bgInspector">>,
       <<"textTertiary", "bgPrimary">>,
       <<"textTertiary", "bgCard">>,
       <<"textTertiary", "bgSidebar">>,
       <<"textTertiary", "bgInspector">>,
       <<"textMuted", "bgPrimary">>,
       <<"textMuted", "bgCard">>,
       <<"textMuted", "bgSidebar">>,
       <<"textMuted", "bgInspector">> >>

Tokens == {PAIRS[k][1] : k \in DOMAIN PAIRS} \cup {PAIRS[k][2] : k \in DOMAIN PAIRS}

\* ASSET_ROOT / f"{token}.colorset" / "Contents.json"
PathOf(tok) == ASSET_ROOT \o "/" \o tok \o ".colorset/Contents.json"

Paths == {PathOf(t) : t \in Tokens}

\* content of a file: absent, text that is not JSON, or a JSON object
MissingFile == [kind |-> "missing"]
InvalidJson == [kind |-> "invalid"]
JsonFile(data) == [kind |-> "json", data |-> data]

\* an exception; file is the path its message names, "" when it names none
Raise(type, file) == [raised |-> TRUE, exception |-> [type |-> type, file |-> file]]

Return(variants) == [raised |-> FALSE, variants |-> variants]

EmptyDict == [v \in {} |-> <<>>]

\* lines 61-65: "dark" when some appearance is luminosity/dark, else "light"
variant_of(entry) ==
    LET appearances == IF "appearances" \in DOMAIN entry
                       THEN entry.appearances ELSE <<>>
    IN  IF \E k \in DOMAIN appearances :
              /\ appearances[k].appearance = "luminosity"
              /\ appearances[k].value = "dark"
        THEN "dark" ELSE "light"

\* lines 54-66 keeping the first entry of a variant instead of the last
RECURSIVE scan_colors_first(_, _, _)
scan_colors_first(colors, k, variants) ==
    IF k > Len(colors) THEN Return(variants)
    ELSE LET entry == colors[k] IN
         IF "color" \notin DOMAIN entry THEN Raise("KeyError", "")
         ELSE LET components == entry.color.components
                  rgb == <<float(components.red),
                           float(components.green),
                           float(components.blue)>>
                  variant == variant_of(entry)
              IN  scan_colors_first(colors, k + 1,
                      [v \in DOMAIN variants \cup {variant} |->
                          IF v \in DOMAIN variants THEN variants[v] ELSE rgb])

\* lines 54-66: the loop over data["colors"], from entry k on
RECURSIVE scan_colors(_, _, _)
scan_colors(colors, k, variants) ==
    IF k > Len(colors) THEN Return(variants)
    ELSE LET entry == colors[k] IN
         IF "color" \notin DOMAIN entry THEN Raise("KeyError", "")
         ELSE LET components == entry.color.components
                  rgb == <<float(components.red),
                           float(components.green),
                           float(components.blue)>>
                  variant == variant_of(entry)
              IN  scan_colors(colors, k + 1,
                      [v \in DOMAIN variants \cup {variant} |->
                          IF v = variant THEN rgb ELSE variants[v]])

load_color_variants(tok) ==
    LET path == PathOf(tok)
        file == store[path]
    IN  IF file.kind = "missing" THEN Raise("FileNotFoundError", path)
        ELSE IF file.kind = "invalid" THEN Raise("JSONDecodeError", "")
        ELSE IF "colors" \notin DOMAIN file.data THEN Raise("KeyError", "")
        ELSE LET scanned == scan_colors(file.data.colors, 1, EmptyDict) IN
             IF scanned.raised THEN scanned
             ELSE IF \/ "light" \notin DOMAIN scanned.variants
                     \/ "dark" \notin DOMAIN scanned.variants
                  THEN Raise("ValueError", path)
                  ELSE scanned

-----------------------------------------------------------------------------
(* Asset files the model draws from.                                       *)

MaxEntries == 3
MaxAppearances == 2

Color(r, g, b) == [components |-> [red |-> r, green |-> g, blue |-> b]]

DarkTag == [appearance |-> "luminosity", value |-> "dark"]
LightTag == [appearance |-> "luminosity", value |-> "light"]
ContrastTag == [appearance |-> "contrast", value |-> "dark"]

\* the appearance tags, in the order in which an entry lists them
AppearanceTags == <<LightTag, ContrastTag, DarkTag>>

\* the appearance lists of an entry: up to MaxAppearances distinct tags
AppearanceLists ==
    {[k \in 1..Cardinality(S) |->
         AppearanceTags[CHOOSE i \in S : Cardinality({j \in S : j < i}) = k - 1]] :
     S \in {T \in SUBSET DOMAIN AppearanceTags : Cardinality(T) <= MaxAppearances}}

White == Color(1000, 1000, 1000)
Black == Color(0, 0, 0)
Olive == Color(400, 400, 41)

\* entries of the loader harness: two colours, with or without the
\* "appearances" key, and an entry that lacks its "color" key
HarnessColors == {White, Olive}

Entries ==
    {[color |-> c] : c \in HarnessColors}
    \cup {[color |-> c, appearances |-> a] : c \in HarnessColors, a \in AppearanceLists}
    \cup {[idiom |-> "universal"]}

HarnessFiles ==
    {MissingFile, InvalidJson, JsonFile([info |-> "xcode"])}
    \cup {JsonFile([colors |-> cs]) :
             cs \in UNION {[1..n -> Entries] : n \in 0..MaxEntries}}

LightEntry(c) == [color |-> c]
DarkEntry(c) == [color |-> c, appearances |-> <<DarkTag>>]

\* token files of the runs of main()
MainFiles ==
    { JsonFile([colors |-> <<LightEntry(White), DarkEntry(Black)>>]),
      JsonFile([colors |-> <<DarkEntry(White), LightEntry(Black)>>]),
      JsonFile([colors |-> <<LightEntry(Olive), DarkEntry(White), DarkEntry(Olive)>>]),
      JsonFile([colors |-> <<LightEntry(White)>>]),
      MissingFile }

-----------------------------------------------------------------------------
(* main()                                                                  *)

HeaderLine == [line |-> "header"]

StatusLine(status, text_token, bg_token, light_ratio, dark_ratio) ==
    [line |-> "status", status |-> status, text |-> text_token, bg |-> bg_token,
     light |-> Format2(light_ratio), dark |-> Format2(dark_ratio)]

SummaryLine(r, pair) == [line |-> "summary", lowest |-> Format2(r), pair |-> pair]

PairLabel(text_token, bg_token) == text_token \o " on " \o bg_token

MainIdle ==
    /\ pc = "idle" /\ idx = 0 /\ all_pass = TRUE /\ min_ratio = <<>>
    /\ min_pair = "" /\ out = <<>> /\ returned = <<>> /\ error = <<>>

HarnessIdle ==
    /\ token = "" /\ loaded = <<>>
    /\ foreground = <<>> /\ background = <<>> /\ ratio = <<>>

harnessVars == <<token, loaded, foreground, background, ratio>>

InitMain ==
    /\ store \in [Paths -> MainFiles]
    /\ pc = "start" /\ idx = 0 /\ all_pass = TRUE /\ min_ratio = <<>>
    /\ min_pair = "" /\ out = <<>> /\ returned = <<>> /\ error = <<>>
    /\ HarnessIdle

\* lines 75-79
main_begin ==
    /\ pc = "start"
    /\ out' = Append(out, HeaderLine)
    /\ all_pass' = TRUE
    /\ min_ratio' = Float(999, 0, 0, 0, 0)
    /\ min_pair' = ""
    /\ idx' = 1
    /\ pc' = "loop"
    /\ UNCHANGED <<store, returned, error, harnessVars>>

\* lines 88-90 with "or" for "and"
pair_ok_either(light_ratio, dark_ratio) ==
    Leq(AA_MIN_RATIO, light_ratio) \/ Leq(AA_MIN_RATIO, dark_ratio)

\* lines 88-90
pair_ok(light_ratio, dark_ratio) ==
    LET light_ok == Leq(AA_MIN_RATIO, light_ratio)
        dark_ok == Leq(AA_MIN_RATIO, dark_ratio)
    IN  light_ok /\ dark_ok

\* line 91 without the accumulation
update_all_pass_last(ap, ok) == ok

\* line 91
update_all_pass(ap, ok) == ap /\ ok

\* lines 93-96 with "<=" for "<"
update_min_last(mr, mp, min_for_pair, label) ==
    IF Leq(min_for_pair, mr) THEN <<min_for_pair, label>> ELSE <<mr, mp>>

\* lines 93-96: the new <<min_ratio, min_pair>>
update_min(mr, mp, min_for_pair, label) ==
    IF Less(min_for_pair, mr) THEN <<min_for_pair, label>> ELSE <<mr, mp>>

\* lines 81-102, an iteration in which both tokens load
main_pair ==
    /\ pc = "loop"
    /\ idx <= Len(PAIRS)
    /\ LET text_token == PAIRS[idx][1]
           bg_token == PAIRS[idx][2]
           text == load_color_variants(text_token)
           bg == load_color_variants(bg_token)
       IN  /\ ~text.raised
           /\ ~bg.raised
           /\ LET light_ratio == contrast_ratio(text.variants["light"], bg.variants["light"])
                  dark_ratio == contrast_ratio(text.variants["dark"], bg.variants["dark"])
                  ok == pair_ok(light_ratio, dark_ratio)
                  min_for_pair == Min(light_ratio, dark_ratio)
                  new_min == update_min(min_ratio, min_pair, min_for_pair,
                                        PairLabel(text_token, bg_token))
                  status == IF ok THEN "PASS" ELSE "FAIL"
              IN  /\ all_pass' = update_all_pass(all_pass, ok)
                  /\ min_ratio' = new_min[1]
                  /\ min_pair' = new_min[2]
                  /\ out' = Append(out, StatusLine(status, text_token, bg_token,
                                                   light_ratio, dark_ratio))
    /\ idx' = idx + 1
    /\ UNCHANGED <<store, pc, returned, error, harnessVars>>

\* lines 82-83 with every token loaded before the first pair is handled
main_raise_eager ==
    /\ pc = "loop"
    /\ idx <= Len(PAIRS)
    /\ \E t \in Tokens :
          /\ load_color_variants(t).raised
          /\ error' = <<load_color_variants(t).exception>>
    /\ pc' = "raised"
    /\ UNCHANGED <<store, idx, all_pass, min_ratio, min_pair, out, returned, harnessVars>>

\* lines 82-83 with the failing pair skipped
main_raise_skip ==
    /\ pc = "loop"
    /\ idx <= Len(PAIRS)
    /\ \/ load_color_variants(PAIRS[idx][1]).raised
       \/ load_color_variants(PAIRS[idx][2]).raised
    /\ idx' = idx + 1
    /\ UNCHANGED <<store, pc, all_pass, min_ratio, min_pair, out, returned, error, harnessVars>>

\* lines 82-83, an iteration in which a load raises: text before bg
main_raise ==
    /\ pc = "loop"
    /\ idx <= Len(PAIRS)
    /\ LET text == load_color_variants(PAIRS[idx][1])
           bg == load_color_variants(PAIRS[idx][2])
       IN  /\ text.raised \/ bg.raised
           /\ error' = <<IF text.raised THEN text.exception ELSE bg.exception>>
    /\ pc' = "raised"
    /\ UNCHANGED <<store, idx, all_pass, min_ratio, min_pair, out, returned, harnessVars>>

\* lines 104-105 reached as soon as a pair fails
main_return_on_fail ==
    /\ pc = "loop"
    /\ idx > Len(PAIRS) \/ ~all_pass
    /\ out' = Append(out, SummaryLine(min_ratio, min_pair))
    /\ returned' = <<IF all_pass THEN 0 ELSE 1>>
    /\ pc' = "done"
    /\ UNCHANGED <<store, idx, all_pass, min_ratio, min_pair, error, harnessVars>>

\* lines 104-105
main_return ==
    /\ pc = "loop"
    /\ idx > Len(PAIRS)
    /\ out' = Append(out, SummaryLine(min_ratio, min_pair))
    /\ returned' = <<IF all_pass THEN 0 ELSE 1>>
    /\ pc' = "done"
    /\ UNCHANGED <<store, idx, all_pass, min_ratio, min_pair, error, harnessVars>>

-----------------------------------------------------------------------------
(* A direct call of load_color_variants on one token file.                 *)

InitLoad ==
    /\ token \in {"textMuted"}
    /\ \E file \in HarnessFiles :
          store = [p \in Paths |-> IF p = PathOf(token) THEN file ELSE MissingFile]
    /\ loaded = <<>>
    /\ MainIdle
    /\ foreground = <<>> /\ background = <<>> /\ ratio = <<>>

call_load_color_variants ==
    /\ pc = "idle"
    /\ token # ""
    /\ loaded = <<>>
    /\ loaded' = <<load_color_variants(token)>>
    /\ UNCHANGED <<store, mainVars, token, foreground, background, ratio>>

-----------------------------------------------------------------------------
(* A direct call of contrast_ratio on two samples, in both argument orders *)

InitRatio ==
    /\ store = [p \in Paths |-> MissingFile]
    /\ MainIdle
    /\ token = "" /\ loaded = <<>>
    /\ foreground \in Samples
    /\ background \in Samples
    /\ ratio = <<>>

call_contrast_ratio ==
    /\ pc = "idle"
    /\ token = ""
    /\ ratio = <<>>
    /\ ratio' = <<contrast_ratio(foreground, background),
                  contrast_ratio(background, foreground)>>
    /\ UNCHANGED <<store, mainVars, token, loaded, foreground, background>>

-----------------------------------------------------------------------------

Init == InitMain \/ InitLoad \/ InitRatio

Next ==
    \/ main_begin
    \/ main_pair
    \/ main_raise
    \/ main_return
    \/ call_load_color_variants
    \/ call_contrast_ratio

Spec == Init /\ [][Next]_vars

-----------------------------------------------------------------------------------------------------------------------------------------------------
(* What a run of main() over the current store is expected to print.       *)

\* the outcome of loading each token from the current store
LoadAll == [t \in Tokens |-> load_color_variants(t)]

PairLoads(L, k) == ~L[PAIRS[k][1]].raised /\ ~L[PAIRS[k][2]].raised

\* <<light ratio, dark ratio>> of each pair whose two tokens load
RatiosOf(L) ==
    [k \in DOMAIN PAIRS |->
        IF PairLoads(L, k)
        THEN <<contrast_ratio(L[PAIRS[k][1]].variants["light"],
                              L[PAIRS[k][2]].variants["light"]),
               contrast_ratio(L[PAIRS[k][1]].variants["dark"],
                              L[PAIRS[k][2]].variants["dark"])>>
        ELSE <<>>]

\* index of the first pair that references a token whose load fails, or 0
FirstFailingIn(L) ==
    LET failing == {k \in DOMAIN PAIRS : ~PairLoads(L, k)}
    IN  IF failing = {} THEN 0
        ELSE CHOOSE k \in failing : \A j \in failing : k <= j

InMain == pc \in {"start", "loop", "done", "raised"}

StatusLines == {k \in DOMAIN out : out[k].line = "status"}

SummaryLines == {k \in DOMAIN out : out[k].line = "summary"}

\* the index in PAIRS of the pair a status line reports
PairOfLine(k) == k - 1

Passes(r) == Leq(AA_MIN_RATIO, r[1]) /\ Leq(AA_MIN_RATIO, r[2])

-----------------------------------------------------------------------------
(* C1  A run of main() that completes returns 0 exactly when every pair of *)
(* PAIRS has its light and its dark ratio >= 4.5, and returns 1 exactly    *)
(* when some pair, at any position, was reported FAIL.                     *)
C1_ExitStatus ==
    pc = "done" =>
        LET R == RatiosOf(LoadAll) IN
        /\ returned \in {<<0>>, <<1>>}
        /\ (returned = <<0>>) <=> (\A k \in DOMAIN PAIRS : Passes(R[k]))
        /\ (returned = <<1>>) <=> (\E k \in StatusLines : out[k].status = "FAIL")

\* a completed run whose only failing pairs are among the first four
C1_Witness ==
    /\ pc = "done"
    /\ returned = <<1>>
    /\ out[2].status = "FAIL"
    /\ \A k \in 6..(Len(PAIRS) + 1) : out[k].status = "PASS"

AllRatios(R) == {R[k][1] : k \in DOMAIN PAIRS} \cup {R[k][2] : k \in DOMAIN PAIRS}

TrueMinimum(R) == CHOOSE m \in AllRatios(R) : \A r \in AllRatios(R) : Leq(m, r)

AtMinimum(R) ==
    LET m == TrueMinimum(R)
    IN  {k \in DOMAIN PAIRS : R[k][1] = m \/ R[k][2] = m}

FirstAtMinimum(R) ==
    LET at == AtMinimum(R)
    IN  CHOOSE k \in at : \A j \in at : k <= j

C4_AbortAtFailingPair ==
    InMain =>
        LET first == FirstFailingIn(LoadAll) IN
        first # 0 =>
            /\ SummaryLines = {}
            /\ \A k \in StatusLines : PairOfLine(k) < first
            /\ returned = <<>>
            /\ pc \in {"start", "loop", "raised"}
            /\ pc = "raised" => StatusLines = 2..first

\* a run aborted by a load failure after status lines were printed
C4_Witness ==
    /\ pc = "raised"
    /\ StatusLines # {}
    /\ FirstFailingIn(LoadAll) = Cardinality(StatusLines) + 1

\* C4 as stated: a run that ends in a load error has printed no status line
C4_NotPartiallyReported ==
    pc = "raised" => (StatusLines = {} /\ SummaryLines = {})

(* C5  When all tokens load, main() prints one status line per pair of     *)
(* PAIRS in configuration order, the pairs after a FAIL pair included,     *)
(* then the summary line; it is never stopped before, and a failure shows  *)
(* only in the value returned.                                             *)
C5_RunContinues ==
    (InMain /\ FirstFailingIn(LoadAll) = 0) =>
        /\ pc # "raised"
        /\ pc = "loop" => (idx \in 1..(Len(PAIRS) + 1) /\ Len(out) = idx)
        /\ \A k \in DOMAIN out :
              \/ k = 1 /\ out[k].line = "header"
              \/ /\ k \in 2..(Len(PAIRS) + 1)
                 /\ out[k].line = "status"
                 /\ out[k].text = PAIRS[k - 1][1]
                 /\ out[k].bg = PAIRS[k - 1][2]
              \/ k = Len(PAIRS) + 2 /\ out[k].line = "summary"
        /\ pc = "done" => Len(out) = Len(PAIRS) + 2 /\ returned \in {<<0>>, <<1>>}
        /\ pc # "done" => returned = <<>>

\* a completed run whose first pair is FAIL and whose last pair is PASS
C5_Witness ==
    /\ pc = "done"
    /\ Len(out) = Len(PAIRS) + 2
    /\ out[2].status = "FAIL"
    /\ out[Len(PAIRS) + 1].status = "PASS"

(* C6  load_color_variants either returns a mapping holding a "light" and  *)
(* a "dark" sample or fails with an error that names the record file of    *)
(* the token.                                                              *)
C6_BothVariantsOrNamedError ==
    loaded # <<>> =>
        IF loaded[1].raised
        THEN loaded[1].exception.file = PathOf(token)
        ELSE {"light", "dark"} \subseteq DOMAIN loaded[1].variants

(* C7  For a record that load_color_variants accepts, "dark" is the RGB of *)
(* the last entry carrying a luminosity/dark appearance and "light" the    *)
(* RGB of the last entry carrying none.                                    *)
RecordOf(tok) == store[PathOf(tok)].data.colors

CarriesDark(entry) ==
    /\ "appearances" \in DOMAIN entry
    /\ \E k \in DOMAIN entry.appearances :
          entry.appearances[k] = [appearance |-> "luminosity", value |-> "dark"]

LastIndex(S) == CHOOSE k \in S : \A j \in S : j <= k

\* the number s / 1000
Thousandths(s) == <<s \div 1000, 10 * (s % 1000), 0, 0, 0>>

RGBOf(entry) ==
    <<Thousandths(entry.color.components.red),
      Thousandths(entry.color.components.green),
      Thousandths(entry.color.components.blue)>>

C7_LastEntryWins ==
    (loaded # <<>> /\ ~loaded[1].raised) =>
        LET colors == RecordOf(token)
            darks == {k \in DOMAIN colors : CarriesDark(colors[k])}
            lights == {k \in DOMAIN colors : ~CarriesDark(colors[k])}
        IN  /\ darks # {}
            /\ lights # {}
            /\ loaded[1].variants["dark"] = RGBOf(colors[LastIndex(darks)])
            /\ loaded[1].variants["light"] = RGBOf(colors[LastIndex(lights)])

\* an accepted record with two dark entries of different colours and a
\* light entry that carries only other appearance tags
C7_Witness ==
    /\ loaded # <<>>
    /\ ~loaded[1].raised
    /\ LET colors == RecordOf(token) IN
       /\ \E i, j \in DOMAIN colors :
             /\ i < j
             /\ CarriesDark(colors[i]) /\ CarriesDark(colors[j])
             /\ colors[i].color # colors[j].color
       /\ \E i \in DOMAIN colors :
             /\ ~CarriesDark(colors[i])
             /\ "appearances" \in DOMAIN colors[i]
             /\ Len(colors[i].appearances) = 2

(* C8  contrast_ratio is symmetric: exchanging foreground and background   *)
(* changes neither the ratio nor its comparison with the 4.5 threshold.    *)
C8_Symmetric ==
    ratio # <<>> =>
        /\ ratio[1] = ratio[2]
        /\ Leq(AA_MIN_RATIO, ratio[1]) <=> Leq(AA_MIN_RATIO, ratio[2])

\* both orders computed for two samples of different luminance
C8_Witness ==
    /\ ratio # <<>>
    /\ Less(luminance(foreground), luminance(background))
    /\ Less(AA_MIN_RATIO, ratio[1])

C10_AtLeastOne ==
    /\ ratio # <<>> =>
          /\ \A c \in 1..3 : /\ Leq(foreground[c], Float(1, 0, 0, 0, 0))
                            /\ Leq(background[c], Float(1, 0, 0, 0, 0))
          /\ Leq(Float(1, 0, 0, 0, 0), ratio[1])
          /\ luminance(foreground) = luminance(background)
                => ratio[1] = Float(1, 0, 0, 0, 0)
    /\ pc = "done" => out[Len(out)].lowest >= 100

\* the ratio of a gray with itself, neither black nor white
C10_Witness ==
    /\ ratio # <<>>
    /\ foreground = background
    /\ foreground[1] = foreground[2] /\ foreground[2] = foreground[3]
    /\ foreground[1] \notin {Float(0, 0, 0, 0, 0), Float(1, 0, 0, 0, 0)}
    /\ ratio[1] = Float(1, 0, 0, 0, 0)

====
